---- MODULE Spec2Model ----
(***************************************************************************)
(* Model of images/index.js: the film-strip screenshot script.             *)
(*                                                                         *)
(* One node process runs takeImageStrip: it starts an express server that  *)
(* serves a fixed manifest of files from memory plus a wildcard proxy into *)
(* the parent directory, parses the command line, launches a browser,      *)
(* lists ../examples/, and for every listed name that contains ".json"     *)
(* opens a page, waits for window._finished, takes a screenshot and        *)
(* compares its md5 with a stored one.                                     *)
(*                                                                         *)
(* Strings on which the code does string work (indexOf, concatenation,     *)
(* Number(), encodeURIComponent) are tuples of one-character strings.      *)
(* File contents, content types and program positions are opaque TLA+      *)
(* strings.                                                                *)
(***************************************************************************)
EXTENDS Integers, Sequences, FiniteSets, TLC

VARIABLES
    pc,           \* position of takeImageStrip (the awaited call it is at)
    phase,        \* last phase of the run that was entered (history)
    argv,         \* the command line of the process
    settings,     \* result of getSettings
    listening,    \* the http listener of app.listen is open
    routes,       \* the express route table, in registration order
    disk,         \* the file system: path -> content
    fsChanges,    \* number of changes other programs made to the disk
    browser,      \* "none", "open", "closed"
    pages,        \* pages opened in the browser, in order (never closed)
    files,        \* result of getDirFiles
    jsonFiles,    \* files filtered by iteratePages
    i,            \* loop index of iteratePages (0-based, as in the code)
    writes,       \* screenshot paths written by page.screenshot, in order
    checked,      \* number of completed checkMD5Sum calls
    timeoutAt,    \* 1-based index of the sample whose wait timed out, or 0
    md5Case,      \* branch taken by the last checkMD5Sum call
    logged,       \* console.log(error) of the catch block has run
    exited,       \* the process has terminated
    exitCode,     \* its exit code, once exited
    lastResponse  \* the latest http response sent by the server

vars == <<pc, phase, argv, settings, listening, routes, disk, fsChanges,
          browser, pages, files, jsonFiles, i, writes, checked, timeoutAt,
          md5Case, logged, exited, exitCode, lastResponse>>

-----------------------------------------------------------------------------
(* Bounds *)

MaxFiles == 3        \* longest directory listing
MaxFsChanges == 1    \* changes made to the disk by other programs

-----------------------------------------------------------------------------
(* String helpers *)

\* String.prototype.indexOf(needle) !== -1
RECURSIVE ContainsFrom(_, _, _)
ContainsFrom(s, needle, k) ==
    IF k + Len(needle) - 1 > Len(s) THEN FALSE
    ELSE IF SubSeq(s, k, k + Len(needle) - 1) = needle THEN TRUE
    ELSE ContainsFrom(s, needle, k + 1)

Contains(s, needle) == ContainsFrom(s, needle, 1)

EndsWith(s, suffix) ==
    /\ Len(s) >= Len(suffix)
    /\ SubSeq(s, Len(s) - Len(suffix) + 1, Len(s)) = suffix

DotJson == <<".","j","s","o","n">>
DotPng == <<".","p","n","g">>
DotMd5 == <<".","m","d","5">>
Slash == <<"/">>
DotDot == <<".",".">>

-----------------------------------------------------------------------------
(* Module constants of index.js *)

examplesDirectory == <<".",".","/","e","x","a","m","p","l","e","s","/">>
destinationDirectory == <<".","/","s","c","r","e","e","n","s","h","o","t","s">>
md5Directory == <<".","/","m","d","5","s","u","m","/","l","o","t","t","i","e","_","w","e","b">>

NodeModules == <<"n","o","d","e","_","m","o","d","u","l","e","s","/">>
CanvaskitBin == NodeModules \o <<"c","a","n","v","a","s","k","i","t","-","w","a","s","m","/","b","i","n","/","f","u","l","l","/","c","a","n","v","a","s","k","i","t">>

filesData == <<
    [path     |-> <<"/","j","s","/","m","a","i","n",".","j","s">>,
     filePath |-> <<".","/","j","s","/","m","a","i","n",".","j","s">>,
     type     |-> "js"],
    [path     |-> <<"/","j","s","/","s","c","r","e","e","n","s","h","o","t",".","j","s">>,
     filePath |-> <<".","/","j","s","/","s","c","r","e","e","n","s","h","o","t",".","j","s">>,
     type     |-> "js"],
    [path     |-> <<"/","j","s","/","s","c","r","e","e","n","s","h","o","t","_","s","k","o","t","t","i","e",".","j","s">>,
     filePath |-> <<".","/","j","s","/","s","c","r","e","e","n","s","h","o","t","_","s","k","o","t","t","i","e",".","j","s">>,
     type     |-> "js"],
    [path     |-> <<"/","j","s","/","c","a","n","v","a","s","S","n","a","p","s","h","o","t",".","j","s">>,
     filePath |-> <<".","/","j","s","/","c","a","n","v","a","s","S","n","a","p","s","h","o","t",".","j","s">>,
     type     |-> "js"],
    [path     |-> <<"/","j","s","/","w","a","i","t",".","j","s">>,
     filePath |-> <<".","/","j","s","/","w","a","i","t",".","j","s">>,
     type     |-> "js"],
    [path     |-> <<"/","l","o","t","t","i","e",".","j","s">>,
     filePath |-> NodeModules \o <<"l","o","t","t","i","e","-","w","e","b","/","b","u","i","l","d","/","p","l","a","y","e","r","/","l","o","t","t","i","e",".","m","i","n",".","j","s">>,
     type     |-> "js"],
    [path     |-> <<"/","c","a","n","v","a","s","k","i","t",".","j","s">>,
     filePath |-> CanvaskitBin \o <<".","j","s">>,
     type     |-> "js"],
    [path     |-> <<"/","l","o","t","t","i","e",".","j","s","o","n">>,
     filePath |-> examplesDirectory \o <<"r","e","c","t","a","n","g","l","e",".","j","s","o","n">>,
     type     |-> "json"],
    [path     |-> <<"/","s","c","r","e","e","n","s","h","o","t",".","h","t","m","l">>,
     filePath |-> <<".","/","s","c","r","e","e","n","s","h","o","t",".","h","t","m","l">>,
     type     |-> "html"],
    [path     |-> <<"/","c","a","n","v","a","s","K","i","t",".","w","a","s","m">>,
     filePath |-> CanvaskitBin \o <<".","w","a","s","m">>,
     type     |-> "wasm"] >>

\* encodingMap[fileType]; a type without an entry gives undefined, and
\* readFile then returns a Buffer
getEncoding(fileType) ==
    IF fileType \in {"js", "json", "html"} THEN "utf8" ELSE "buffer"

\* contentTypeMap[fileType]
getContentTypeHeader(fileType) ==
    CASE fileType = "js"   -> "application/javascript"
      [] fileType = "json" -> "application/json"
      [] fileType = "html" -> "text/html; charset=utf-8"
      [] fileType = "wasm" -> "application/wasm"

-----------------------------------------------------------------------------
(* The file system *)

\* fs.promises.readFile(path, encoding): fails on a missing file and on a
\* directory; without an encoding the result is a Buffer
readFile(path, encoding) ==
    IF path \in DOMAIN disk /\ disk[path] # "DIR"
    THEN [ok |-> TRUE, enc |-> encoding, data |-> disk[path]]
    ELSE [ok |-> FALSE, enc |-> encoding, data |-> ""]

WriteFile(d, path, content) ==
    [p \in DOMAIN d \cup {path} |-> IF p = path THEN content ELSE d[p]]

RemoveFile(d, path) == [p \in DOMAIN d \ {path} |-> d[p]]

\* md5 of a file content (md5-file)
Md5Of(content) == IF content = "png" THEN "h1" ELSE "h0"

ImagePath == <<".",".","/","i","m","a","g","e","s","/","i","m","g","_","0",".","p","n","g">>
ExamplesDirPath == <<".",".","/","e","x","a","m","p","l","e","s">>

\* Names a listing of ../examples/ is made of
NameA == <<"a",".","j","s","o","n">>
NameB == <<"b",".","j","s","o","n">>
NameTxt == <<"c",".","t","x","t">>
NameBak == <<"d",".","j","s","o","n",".","b","a","k">>
FileNames == {NameA, NameB, NameTxt, NameBak}

ScreenshotPath(file) == destinationDirectory \o Slash \o file \o DotPng
Md5Path(file) == md5Directory \o Slash \o file \o DotMd5

InitDisk ==
    [p \in {filesData[k].filePath : k \in DOMAIN filesData}
           \cup {ImagePath, ExamplesDirPath} |->
        IF p = ExamplesDirPath THEN "DIR" ELSE "v1"]

\* Files other programs change while the script runs, and what they are
\* changed to: a served script, the default sample (served both from the
\* manifest and through the proxy), the wasm binary, a proxied image, the
\* stored md5 of a sample and the screenshot of a sample.
VolatilePaths ==
    {filesData[1].filePath, filesData[8].filePath, filesData[10].filePath,
     ImagePath, Md5Path(NameA), ScreenshotPath(NameA)}

NewContents(path) ==
    IF path = Md5Path(NameA) THEN {"h1", "h2"}
    ELSE IF path = ScreenshotPath(NameA) THEN {}
    ELSE {"v2"}

-----------------------------------------------------------------------------
(* Numbers: a JavaScript number is NaN, an infinity, or m * 10^(-e)          *)
(* with e > 0 only when m is not a multiple of 10.                          *)

NaN == [kind |-> "nan", m |-> 0, e |-> 0]
Infinity(sign) == [kind |-> "inf", m |-> sign, e |-> 0]

RECURSIVE Num(_, _)
Num(m, e) ==
    IF e > 0 /\ m % 10 = 0 THEN Num(m \div 10, e - 1)
    ELSE [kind |-> "num", m |-> m, e |-> e]

Negate(x) == [x EXCEPT !.m = 0 - x.m]

isNaN(x) == x.kind = "nan"

\* x <= 0
LeqZero(x) == x.kind # "nan" /\ x.m <= 0

\* x < 0
LtZero(x) == x.kind # "nan" /\ x.m < 0

Digits == <<"0","1","2","3","4","5","6","7","8","9">>
IsDigit(c) == \E d \in DOMAIN Digits : Digits[d] = c
DigitVal(c) == (CHOOSE d \in DOMAIN Digits : Digits[d] = c) - 1
AllDigits(s) == \A k \in DOMAIN s : IsDigit(s[k])

RECURSIVE DigitsVal(_)
DigitsVal(s) ==
    IF s = <<>> THEN 0
    ELSE 10 * DigitsVal(SubSeq(s, 1, Len(s) - 1)) + DigitVal(s[Len(s)])

RECURSIVE Trim(_)
Trim(s) ==
    IF s = <<>> THEN s
    ELSE IF Head(s) = " " THEN Trim(Tail(s))
    ELSE IF s[Len(s)] = " " THEN Trim(SubSeq(s, 1, Len(s) - 1))
    ELSE s

\* Position of the first c in s, or 0
FirstIndex(s, c) ==
    IF \E k \in DOMAIN s : s[k] = c
    THEN CHOOSE k \in DOMAIN s : s[k] = c /\ \A j \in 1..(k - 1) : s[j] # c
    ELSE 0

\* An unsigned decimal literal: Infinity, digits, digits.digits, digits.
\* or .digits (exponents and 0x/0o/0b literals are outside the inputs used)
UnsignedLiteral(s) ==
    IF s = <<"I","n","f","i","n","i","t","y">> THEN Infinity(1)
    ELSE LET dot == FirstIndex(s, ".")
             int == IF dot = 0 THEN s ELSE SubSeq(s, 1, dot - 1)
             frac == IF dot = 0 THEN <<>> ELSE SubSeq(s, dot + 1, Len(s))
         IN IF AllDigits(int) /\ AllDigits(frac) /\ Len(int) + Len(frac) > 0
            THEN Num(DigitsVal(int \o frac), Len(frac))
            ELSE NaN

\* Number(val) of a string: white space is trimmed, the empty string is 0
Number(val) ==
    LET t == Trim(val)
    IN IF t = <<>> THEN Num(0, 0)
       ELSE IF Head(t) = "-" THEN Negate(UnsignedLiteral(Tail(t)))
       ELSE IF Head(t) = "+" THEN UnsignedLiteral(Tail(t))
       ELSE UnsignedLiteral(t)

-----------------------------------------------------------------------------
(* getSettings *)

One == Num(1, 0)

Svg == <<"s","v","g">>
Canvas == <<"c","a","n","v","a","s">>
Skottie == <<"s","k","o","t","t","i","e">>

\* A plausible slip: only negative values are replaced
numberType_mut(val) ==
    LET value == Number(val)
    IN IF isNaN(value) \/ LtZero(value) THEN One ELSE value

\* The type function of the resolution and sampleRate options
numberType(val) ==
    LET value == Number(val)
    IN IF isNaN(value) \/ LeqZero(value) THEN One ELSE value

\* The type function of the renderer option
rendererType(value) ==
    IF value \in {Svg, Canvas, Skottie} THEN value ELSE Svg

defaultSettings == [renderer |-> Svg, resolution |-> One, sampleRate |-> One]

NoSettings == [renderer |-> <<>>, resolution |-> NaN, sampleRate |-> NaN]

\* commandLineArgs(opts): one property per option given on the command
\* line, its value passed through the option's type function
commandLineArgs(given) ==
    [name \in DOMAIN given |->
        IF name = "renderer" THEN rendererType(given[name])
        ELSE numberType(given[name])]

\* { ...defaultSettings, ...commandLineArgs(opts) }
getSettings(given) ==
    LET parsed == commandLineArgs(given)
    IN [name \in DOMAIN defaultSettings |->
          IF name \in DOMAIN parsed THEN parsed[name] ELSE defaultSettings[name]]

-----------------------------------------------------------------------------
(* startServer: the express application *)

\* A route holds the index of its manifest entry (0 for the wildcard) and
\* the fileData its handler closes over
WildcardRoute ==
    [kind |-> "wildcard", file |-> 0,
     fileData |-> [ok |-> TRUE, enc |-> "", data |-> ""]]

\* app.get(file.path, ...) with the fileData read before the registration
FileRoute(k) ==
    [kind |-> "file", file |-> k,
     fileData |-> readFile(filesData[k].filePath, getEncoding(filesData[k].type))]

\* The routes in registration order: the manifest routes, registered while
\* Promise.all is awaited, then the wildcard
RegisterRoutes ==
    [k \in DOMAIN filesData |-> FileRoute(k)] \o <<WildcardRoute>>

\* req.path: the url up to the query string
PathOf(url) ==
    LET q == FirstIndex(url, "?")
    IN IF q = 0 THEN url ELSE SubSeq(url, 1, q - 1)

Matches(route, url) ==
    IF route.kind = "wildcard" THEN Len(url) > 0 /\ Head(url) = "/"
    ELSE filesData[route.file].path = PathOf(url)

\* express hands the request to the first registered route that matches
Dispatch(url) ==
    CHOOSE k \in DOMAIN routes :
        /\ Matches(routes[k], url)
        /\ \A j \in 1..(k - 1) : ~Matches(routes[j], url)

EmptyBody == [enc |-> "utf8", data |-> ""]
Body(r) == [enc |-> r.enc, data |-> r.data]

\* The live-update line of the handler, left commented out in the source
FileHandler_mut(route) ==
    LET file == filesData[route.file]
    IN [status |-> 200,
        ctype |-> getContentTypeHeader(file.type),
        body |-> Body(readFile(file.filePath, getEncoding(file.type)))]

\* Handler of a manifest route: writeHead(200, content type); end(fileData)
FileHandler(route) ==
    [status |-> 200,
     ctype |-> getContentTypeHeader(filesData[route.file].type),
     body |-> Body(route.fileData)]

\* res.send(string): status 200, an html content type unless one was set
Send(text) ==
    [status |-> 200, ctype |-> "text/html; charset=utf-8", body |-> text]

\* A plausible slip: a failed read answered as "not found"
WildcardCatch_mut == [Send(EmptyBody) EXCEPT !.status = 404]

\* catch (err) { res.send('') }
WildcardCatch == Send(EmptyBody)

\* Handler of app.get('/*')
WildcardHandler(originalUrl) ==
    IF Contains(originalUrl, DotJson)
    THEN LET file == readFile(DotDot \o originalUrl, "utf8")
         IN IF file.ok THEN Send(Body(file)) ELSE WildcardCatch
    ELSE LET data == readFile(DotDot \o originalUrl, "buffer")
         IN IF data.ok
            THEN [status |-> 200, ctype |-> "image/jpeg", body |-> Body(data)]
            ELSE WildcardCatch

Respond(url) ==
    LET k == Dispatch(url)
        r == IF routes[k].kind = "wildcard" THEN WildcardHandler(url)
             ELSE FileHandler(routes[k])
    IN [url |-> url, route |-> k, status |-> r.status, ctype |-> r.ctype,
        body |-> r.body]

NoResponse ==
    [url |-> <<>>, route |-> 0, status |-> 0, ctype |-> "", body |-> EmptyBody]

\* Urls requested from the server: every manifest path, the harness page
\* with a query string, and paths that fall through to the proxy (a sample,
\* a missing sample, an image, a missing image, a directory)
ManifestUrls == {filesData[k].path : k \in DOMAIN filesData}
HarnessUrl == filesData[9].path \o <<"?","r","e","n","d","e","r","e","r","=","s","v","g">>
SampleUrl == <<"/","e","x","a","m","p","l","e","s","/","r","e","c","t","a","n","g","l","e",".","j","s","o","n">>
MissingSampleUrl == <<"/","e","x","a","m","p","l","e","s","/","n","o","n","e",".","j","s","o","n">>
ImageUrl == <<"/","i","m","a","g","e","s","/","i","m","g","_","0",".","p","n","g">>
MissingImageUrl == <<"/","i","m","a","g","e","s","/","n","o","n","e",".","p","n","g">>
DirectoryUrl == <<"/","e","x","a","m","p","l","e","s">>
ProxyUrls == {SampleUrl, MissingSampleUrl, ImageUrl, MissingImageUrl, DirectoryUrl}
Urls == ManifestUrls \cup {HarnessUrl} \cup ProxyUrls

-----------------------------------------------------------------------------
(* Command lines *)

\* A command line: the options given with their values, and whether it
\* holds an option that is not in opts (commandLineArgs then throws)
CommandLine(given, unknown) == [given |-> given, unknown |-> unknown]

NoOptions == [name \in {} |-> <<>>]

\* Command lines of the runs of the whole script
RunArgv ==
    {CommandLine(NoOptions, FALSE),
     CommandLine([name \in {"resolution", "renderer"} |->
                     IF name = "resolution" THEN <<"0",".","5">> ELSE Canvas],
                 FALSE),
     CommandLine(NoOptions, TRUE)}

-----------------------------------------------------------------------------
(* The run: takeImageStrip *)

runVars == <<pages, files, jsonFiles, i, writes, checked, timeoutAt, md5Case>>
serverVars == <<listening, routes>>
envVars == <<fsChanges, lastResponse>>
endVars == <<exited, exitCode>>

InitRun ==
    /\ pc = "startServer"
    /\ phase = "Idle"
    /\ settings = NoSettings
    /\ listening = FALSE
    /\ routes = <<>>
    /\ disk = InitDisk
    /\ fsChanges = 0
    /\ browser = "none"
    /\ pages = <<>>
    /\ files = <<>>
    /\ jsonFiles = <<>>
    /\ i = 0
    /\ writes = <<>>
    /\ checked = 0
    /\ timeoutAt = 0
    /\ md5Case = "none"
    /\ logged = FALSE
    /\ exited = FALSE
    /\ exitCode = 0
    /\ lastResponse = NoResponse

Init == InitRun /\ argv \in RunArgv

\* catch (error) { console.log(error) }: the error is logged and
\* takeImageStrip returns; nothing ends the process here
Catch ==
    /\ pc' = "caught"
    /\ logged' = TRUE
    /\ UNCHANGED endVars

\* startServer, every manifest file readable: the routes are registered and
\* the listener is opened
StartServerOk ==
    /\ ~exited /\ pc = "startServer"
    /\ \A k \in DOMAIN filesData : readFile(filesData[k].filePath, "").ok
    /\ routes' = RegisterRoutes
    /\ listening' = TRUE
    /\ pc' = "wait"
    /\ phase' = "ServerStarting"
    /\ UNCHANGED <<argv, settings, disk, browser, runVars, envVars, logged, endVars>>

\* startServer, some manifest file unreadable: Promise.all rejects and
\* app.listen is never reached
StartServerFail ==
    /\ ~exited /\ pc = "startServer"
    /\ \E k \in DOMAIN filesData : ~readFile(filesData[k].filePath, "").ok
    /\ phase' = "ServerStarting"
    /\ Catch
    /\ UNCHANGED <<argv, settings, serverVars, disk, browser, runVars, envVars>>

\* wait(500) elapses
WaitDone ==
    /\ ~exited /\ pc = "wait"
    /\ pc' = "getSettings"
    /\ UNCHANGED <<phase, argv, settings, serverVars, disk, browser, runVars,
                   envVars, logged, endVars>>

\* startServer, every manifest file readable, but app.listen cannot bind
\* port 8080: the server emits 'error' on the tick after startServer
\* returned, nothing handles it, and node ends the process with code 1
ListenError ==
    /\ ~exited /\ pc = "startServer"
    /\ \A k \in DOMAIN filesData : readFile(filesData[k].filePath, "").ok
    /\ routes' = RegisterRoutes
    /\ pc' = "wait"
    /\ exited' = TRUE
    /\ exitCode' = 1
    /\ phase' = "Terminated"
    /\ UNCHANGED <<argv, settings, listening, disk, browser, runVars, envVars, logged>>

GetSettingsOk ==
    /\ ~exited /\ pc = "getSettings"
    /\ ~argv.unknown
    /\ settings' = getSettings(argv.given)
    /\ pc' = "getBrowser"
    /\ phase' = "SettingsResolved"
    /\ UNCHANGED <<argv, serverVars, disk, browser, runVars, envVars, logged, endVars>>

\* commandLineArgs throws on an option that opts does not define
GetSettingsFail ==
    /\ ~exited /\ pc = "getSettings"
    /\ argv.unknown
    /\ Catch
    /\ UNCHANGED <<phase, argv, settings, serverVars, disk, browser, runVars, envVars>>

\* puppeteer.launch
GetBrowserOk ==
    /\ ~exited /\ pc = "getBrowser"
    /\ browser' = "open"
    /\ pc' = "readdir"
    /\ phase' = "BrowserLaunched"
    /\ UNCHANGED <<argv, settings, serverVars, disk, runVars, envVars, logged, endVars>>

GetBrowserFail ==
    /\ ~exited /\ pc = "getBrowser"
    /\ Catch
    /\ UNCHANGED <<phase, argv, settings, serverVars, disk, browser, runVars, envVars>>

\* Listings of ../examples/: up to MaxFiles distinct names in any order
Listings ==
    {l \in UNION {[1..n -> FileNames] : n \in 0..MaxFiles} :
        \A a, b \in DOMAIN l : a # b => l[a] # l[b]}

\* The filter of iteratePages
IsJsonFile(file) == Contains(file, DotJson)

\* A plausible slip: browser.close() is left out after the loop
LoopTest_mut(idx, list) == IF idx < Len(list) THEN "startPage" ELSE "exit"

\* Position after the loop test i < jsonFiles.length
LoopTest(idx, list) == IF idx < Len(list) THEN "startPage" ELSE "close"

\* getDirFiles and the filter
ReadDirOk(listing) ==
    /\ ~exited /\ pc = "readdir"
    /\ files' = listing
    /\ jsonFiles' = SelectSeq(listing, IsJsonFile)
    /\ i' = 0
    /\ pc' = LoopTest(0, jsonFiles')
    /\ UNCHANGED <<phase, argv, settings, serverVars, disk, browser, pages,
                   writes, checked, timeoutAt, md5Case, envVars, logged, endVars>>

ReadDirFail ==
    /\ ~exited /\ pc = "readdir"
    /\ Catch
    /\ UNCHANGED <<phase, argv, settings, serverVars, disk, browser, runVars, envVars>>

\* encodeURIComponent
EncodeChar(c) ==
    CASE c = "/" -> <<"%","2","F">>
      [] c = "?" -> <<"%","3","F">>
      [] c = "&" -> <<"%","2","6">>
      [] c = "=" -> <<"%","3","D">>
      [] c = "%" -> <<"%","2","5">>
      [] c = " " -> <<"%","2","0">>
      [] OTHER   -> <<c>>

RECURSIVE encodeURIComponent(_)
encodeURIComponent(s) ==
    IF s = <<>> THEN <<>>
    ELSE EncodeChar(Head(s)) \o encodeURIComponent(Tail(s))

\* The url startPage navigates to, by its parts
TargetURL(path) ==
    [page |-> filesData[9].path,
     renderer |-> settings.renderer,
     sampleRate |-> settings.sampleRate,
     resolution |-> settings.resolution,
     path |-> encodeURIComponent(path)]

\* The page browser.newPage() opens for jsonFiles[i]
NewPage == [file |-> jsonFiles[i + 1],
            url |-> TargetURL(examplesDirectory \o jsonFiles[i + 1])]

\* A plausible slip: processPage is not awaited in the loop, so the pages
\* of all remaining samples are opened at once
OpenPages_mut ==
    pages \o [k \in 1..(Len(jsonFiles) - i) |->
                [file |-> jsonFiles[i + k],
                 url |-> TargetURL(examplesDirectory \o jsonFiles[i + k])]]

OpenPages == Append(pages, NewPage)

\* startPage: newPage and goto both succeed
StartPageOk ==
    /\ ~exited /\ pc = "startPage"
    /\ pages' = OpenPages
    /\ pc' = "waitFinished"
    /\ phase' = "ProcessingSample"
    /\ UNCHANGED <<argv, settings, serverVars, disk, browser, files, jsonFiles,
                   i, writes, checked, timeoutAt, md5Case, envVars, logged, endVars>>

\* startPage: browser.newPage() fails
NewPageFail ==
    /\ ~exited /\ pc = "startPage"
    /\ phase' = "ProcessingSample"
    /\ Catch
    /\ UNCHANGED <<argv, settings, serverVars, disk, browser, runVars, envVars>>

\* startPage: the page is opened and page.goto fails
GotoFail ==
    /\ ~exited /\ pc = "startPage"
    /\ pages' = OpenPages
    /\ phase' = "ProcessingSample"
    /\ Catch
    /\ UNCHANGED <<argv, settings, serverVars, disk, browser, files, jsonFiles,
                   i, writes, checked, timeoutAt, md5Case, envVars>>

\* createFilmStrip: window._finished became true within 20 s
WaitFinishedOk ==
    /\ ~exited /\ pc = "waitFinished"
    /\ pc' = "screenshot"
    /\ UNCHANGED <<phase, argv, settings, serverVars, disk, browser, runVars,
                   envVars, logged, endVars>>

\* A plausible slip: the timeout is swallowed and the screenshot is taken
TimedOut_mut ==
    /\ pc' = "screenshot"
    /\ UNCHANGED <<logged, endVars>>

\* waitForFunction rejects with a TimeoutError, which nothing catches
\* before takeImageStrip
TimedOut == Catch

\* createFilmStrip: window._finished did not become true within 20 s
WaitTimeout ==
    /\ ~exited /\ pc = "waitFinished"
    /\ timeoutAt' = i + 1
    /\ TimedOut
    /\ UNCHANGED <<phase, argv, settings, serverVars, disk, browser, pages,
                   files, jsonFiles, i, writes, checked, md5Case, envVars>>

\* createFilmStrip: page.screenshot writes ./screenshots/<file>.png
ScreenshotOk ==
    /\ ~exited /\ pc = "screenshot"
    /\ disk' = WriteFile(disk, ScreenshotPath(jsonFiles[i + 1]), "png")
    /\ writes' = Append(writes, ScreenshotPath(jsonFiles[i + 1]))
    /\ pc' = "checkMD5Sum"
    /\ UNCHANGED <<phase, argv, settings, serverVars, browser, pages, files,
                   jsonFiles, i, checked, timeoutAt, md5Case, envVars, logged, endVars>>

ScreenshotFail ==
    /\ ~exited /\ pc = "screenshot"
    /\ Catch
    /\ UNCHANGED <<phase, argv, settings, serverVars, disk, browser, runVars, envVars>>

\* getFileAsString: the content of the file, '' when it cannot be read
getFileAsString(path) ==
    LET fileBuffer == readFile(path, "buffer")
    IN IF fileBuffer.ok THEN fileBuffer.data ELSE ""

\* A plausible slip: the intended enforcement, a changed file is rejected
checkMD5Sum_mut(fileName, filePath) ==
    LET md5StoredValue == getFileAsString(Md5Path(fileName))
        file == readFile(filePath, "buffer")
    IN IF md5StoredValue = "" THEN [case |-> "new", throws |-> FALSE]
       ELSE IF ~file.ok THEN [case |-> "unreadable", throws |-> TRUE]
       ELSE IF Md5Of(file.data) # md5StoredValue
            THEN [case |-> "changed", throws |-> TRUE]
            ELSE [case |-> "same", throws |-> FALSE]

\* checkMD5Sum: the branch taken and whether the call rejects (md5File
\* rejects when the screenshot cannot be read)
checkMD5Sum(fileName, filePath) ==
    LET md5StoredValue == getFileAsString(Md5Path(fileName))
        file == readFile(filePath, "buffer")
    IN IF md5StoredValue = "" THEN [case |-> "new", throws |-> FALSE]
       ELSE IF ~file.ok THEN [case |-> "unreadable", throws |-> TRUE]
       ELSE IF Md5Of(file.data) # md5StoredValue
            THEN [case |-> "changed", throws |-> FALSE]
            ELSE [case |-> "same", throws |-> FALSE]

\* The last statement of processPage and the loop increment
CheckMD5Sum ==
    /\ ~exited /\ pc = "checkMD5Sum"
    /\ LET r == checkMD5Sum(jsonFiles[i + 1], ScreenshotPath(jsonFiles[i + 1]))
       IN /\ md5Case' = r.case
          /\ IF r.throws
             THEN /\ Catch
                  /\ UNCHANGED <<i, checked>>
             ELSE /\ checked' = checked + 1
                  /\ i' = i + 1
                  /\ pc' = LoopTest(i + 1, jsonFiles)
                  /\ UNCHANGED <<logged, endVars>>
    /\ UNCHANGED <<phase, argv, settings, serverVars, disk, browser, pages,
                   files, jsonFiles, writes, timeoutAt, envVars>>

BrowserCloseOk ==
    /\ ~exited /\ pc = "close"
    /\ browser' = "closed"
    /\ pc' = "exit"
    /\ phase' = "BrowserClosed"
    /\ UNCHANGED <<argv, settings, serverVars, disk, runVars, envVars, logged, endVars>>

BrowserCloseFail ==
    /\ ~exited /\ pc = "close"
    /\ Catch
    /\ UNCHANGED <<phase, argv, settings, serverVars, disk, browser, runVars, envVars>>

\* process.exit(0)
ProcessExit ==
    /\ ~exited /\ pc = "exit"
    /\ exited' = TRUE
    /\ exitCode' = 0
    /\ phase' = "Terminated"
    /\ UNCHANGED <<pc, argv, settings, serverVars, disk, browser, runVars, envVars, logged>>

\* What keeps the event loop of node alive after takeImageStrip returned:
\* the open listener and the connection to the launched browser
EventLoopAlive == listening \/ browser = "open"

\* takeImageStrip returned through the catch block and nothing keeps the
\* event loop alive: node exits, with process.exitCode unset, with code 0
NaturalExit ==
    /\ ~exited /\ pc = "caught"
    /\ ~EventLoopAlive
    /\ exited' = TRUE
    /\ exitCode' = 0
    /\ phase' = "Terminated"
    /\ UNCHANGED <<pc, argv, settings, serverVars, disk, browser, runVars, envVars, logged>>

-----------------------------------------------------------------------------
(* The environment: http clients and other programs writing to the disk *)

Request(url) ==
    /\ ~exited /\ listening
    /\ lastResponse' = Respond(url)
    /\ UNCHANGED <<pc, phase, argv, settings, serverVars, disk, fsChanges,
                   browser, runVars, logged, endVars>>

FsWrite(path, content) ==
    /\ ~exited /\ fsChanges < MaxFsChanges
    /\ IF path \in DOMAIN disk THEN disk[path] # content ELSE TRUE
    /\ disk' = WriteFile(disk, path, content)
    /\ fsChanges' = fsChanges + 1
    /\ UNCHANGED <<pc, phase, argv, settings, serverVars, browser, runVars,
                   lastResponse, logged, endVars>>

FsDelete(path) ==
    /\ ~exited /\ fsChanges < MaxFsChanges
    /\ path \in DOMAIN disk
    /\ disk' = RemoveFile(disk, path)
    /\ fsChanges' = fsChanges + 1
    /\ UNCHANGED <<pc, phase, argv, settings, serverVars, browser, runVars,
                   lastResponse, logged, endVars>>

-----------------------------------------------------------------------------
(* Specifications *)

RunStep ==
    \/ StartServerOk
    \/ StartServerFail
    \/ ListenError
    \/ WaitDone
    \/ GetSettingsOk
    \/ GetSettingsFail
    \/ GetBrowserOk
    \/ GetBrowserFail
    \/ \E listing \in Listings : ReadDirOk(listing)
    \/ ReadDirFail
    \/ StartPageOk
    \/ NewPageFail
    \/ GotoFail
    \/ WaitFinishedOk
    \/ WaitTimeout
    \/ ScreenshotOk
    \/ ScreenshotFail
    \/ CheckMD5Sum
    \/ BrowserCloseOk
    \/ BrowserCloseFail
    \/ ProcessExit
    \/ NaturalExit

FsStep ==
    \/ \E path \in VolatilePaths : \E content \in NewContents(path) : FsWrite(path, content)
    \/ \E path \in VolatilePaths : FsDelete(path)

\* The whole program with its environment
Next ==
    \/ RunStep
    \/ FsStep
    \/ \E url \in Urls : Request(url)

Spec == Init /\ [][Next]_vars

\* The driver: the run and the disk. Request reads routes and disk and
\* writes lastResponse only, which no step of the run reads.
DriverNext == RunStep \/ FsStep

DriverSpec == Init /\ [][DriverNext]_vars

\* The event loop runs every step of the run that is ready, and node exits
\* once nothing keeps the loop alive; other programs are free
FairDriverSpec == DriverSpec /\ WF_vars(RunStep)

\* The server: startServer, the requests and the disk
ServerNext ==
    \/ StartServerOk
    \/ StartServerFail
    \/ ListenError
    \/ NaturalExit
    \/ FsStep
    \/ \E url \in Urls : Request(url)

ServerSpec == Init /\ [][ServerNext]_vars

-----------------------------------------------------------------------------
(* getSettings over a range of command lines *)

\* Values given to --resolution and --sampleRate, each with the number it
\* denotes when it denotes a positive one
NumberInputs == {
    [text |-> <<"1">>,                 positive |-> TRUE,  value |-> Num(1, 0)],
    [text |-> <<"2">>,                 positive |-> TRUE,  value |-> Num(2, 0)],
    [text |-> <<"1","0">>,             positive |-> TRUE,  value |-> Num(10, 0)],
    [text |-> <<"0",".","5">>,         positive |-> TRUE,  value |-> Num(5, 1)],
    [text |-> <<"2",".","5","0">>,     positive |-> TRUE,  value |-> Num(25, 1)],
    [text |-> <<".","2","5">>,         positive |-> TRUE,  value |-> Num(25, 2)],
    [text |-> <<"+","3">>,             positive |-> TRUE,  value |-> Num(3, 0)],
    [text |-> <<"0">>,                 positive |-> FALSE, value |-> NaN],
    [text |-> <<"0",".","0">>,         positive |-> FALSE, value |-> NaN],
    [text |-> <<"-","1">>,             positive |-> FALSE, value |-> NaN],
    [text |-> <<"-","0",".","5">>,     positive |-> FALSE, value |-> NaN],
    [text |-> <<>>,                    positive |-> FALSE, value |-> NaN],
    [text |-> <<"a","b","c">>,         positive |-> FALSE, value |-> NaN],
    [text |-> <<"1","x">>,             positive |-> FALSE, value |-> NaN],
    [text |-> <<"1",".","2",".","3">>, positive |-> FALSE, value |-> NaN],
    [text |-> <<"-">>,                 positive |-> FALSE, value |-> NaN] }

RendererInputs == {Svg, Canvas, Skottie, <<"w","e","b","g","l">>}

InputsOf(name) ==
    IF name = "renderer" THEN RendererInputs
    ELSE {row.text : row \in NumberInputs}

SettingsArgv ==
    {CommandLine(given, unknown) :
        given \in UNION {
            {g \in [names -> UNION {InputsOf(n) : n \in names}] :
                \A n \in names : g[n] \in InputsOf(n)} :
            names \in SUBSET DOMAIN defaultSettings},
        unknown \in BOOLEAN}

SettingsInit == InitRun /\ argv \in SettingsArgv

\* The run up to getSettings
SettingsNext ==
    \/ StartServerOk
    \/ ListenError
    \/ WaitDone
    \/ GetSettingsOk
    \/ GetSettingsFail

SettingsSpec == SettingsInit /\ [][SettingsNext]_vars

-----------------------------------------------------------------------------
(* Properties *)

\* C1: whenever a step of the run fails and the error is logged, the
\* process eventually exits.
C1_FailedRunExits == logged ~> exited

\* The run completed: every selected sample was screenshotted and checked,
\* the browser was closed, and nothing failed
FullSuccess ==
    /\ ~logged
    /\ routes # <<>>
    /\ browser = "closed"
    /\ checked = Len(jsonFiles)
    /\ Len(writes) = Len(jsonFiles)

\* C2: the process exits with code 0 only after full successful completion,
\* and a run in which a step failed never ends with code 0.
C2_ExitCodeZeroOnlyOnSuccess ==
    exited => /\ exitCode = 0 => FullSuccess
              /\ logged => exitCode # 0

\* C3: once the completion wait of a sample timed out, the run is aborted:
\* no screenshot was or is written for that sample or a later one, the
\* sample is not retried, no later sample is opened, and the screenshots of
\* the earlier samples are the ones written before.
C3_TimeoutAbortsBatch ==
    timeoutAt # 0 =>
        /\ logged /\ pc = "caught"
        /\ i = timeoutAt - 1
        /\ Len(writes) = timeoutAt - 1
        /\ \A k \in DOMAIN writes : writes[k] = ScreenshotPath(jsonFiles[k])
        /\ ScreenshotPath(jsonFiles[timeoutAt]) \notin DOMAIN disk
        /\ Len(pages) = timeoutAt
        /\ \A k \in DOMAIN pages : pages[k].file = jsonFiles[k]
        /\ \A k \in DOMAIN writes :
              writes[k] \in DOMAIN disk => disk[writes[k]] = "png"

C3_Witness ==
    /\ timeoutAt = 2
    /\ Len(jsonFiles) = 3
    /\ Len(writes) = 1
    /\ writes[1] \in DOMAIN disk

\* Number of pages opened for a directory entry
Processed(name) == Cardinality({k \in DOMAIN pages : pages[k].file = name})

InListing(name) == \E k \in DOMAIN files : files[k] = name

\* C4: after a completed run, every entry of the listing whose name has the
\* .json extension was processed exactly once and every other entry was
\* not processed.
C4_OnlyJsonExtension ==
    (exited /\ FullSuccess) =>
        \A name \in FileNames :
            Processed(name) =
                IF InListing(name) /\ EndsWith(name, DotJson) THEN 1 ELSE 0

\* Position of a name in the listing
Position(name) == CHOOSE k \in DOMAIN files : files[k] = name

\* C5: samples are processed one at a time and in listing order: a page is
\* opened only after the screenshot and the checksum check of every earlier
\* sample have completed.
C5_OneSampleAtATime ==
    /\ Len(pages) <= checked + 1
    /\ Len(pages) <= Len(writes) + 1
    /\ Len(pages) <= Len(jsonFiles)
    /\ \A k \in DOMAIN pages : pages[k].file = jsonFiles[k]
    /\ \A k \in DOMAIN writes : writes[k] = ScreenshotPath(jsonFiles[k])
    /\ \A a, b \in DOMAIN jsonFiles :
          a < b => Position(jsonFiles[a]) < Position(jsonFiles[b])

C5_Witness ==
    /\ pc = "waitFinished"
    /\ Len(pages) = 3
    /\ checked = 2
    /\ Len(writes) = 2

\* Content type and encoding each kind of manifest file is served with
ContentTypeOfKind ==
    [js |-> "application/javascript", json |-> "application/json",
     html |-> "text/html; charset=utf-8", wasm |-> "application/wasm"]
EncodingOfKind ==
    [js |-> "utf8", json |-> "utf8", html |-> "utf8", wasm |-> "buffer"]

IsManifestUrl(url) == \E k \in DOMAIN filesData : filesData[k].path = PathOf(url)
EntryOf(url) == CHOOSE k \in DOMAIN filesData : filesData[k].path = PathOf(url)

\* A response to a manifest path comes from the entry's own route, with
\* status 200, the content type of its kind and the content held since startup
C6_Response ==
    (lastResponse.route # 0 /\ IsManifestUrl(lastResponse.url)) =>
        LET k == EntryOf(lastResponse.url)
        IN /\ routes[lastResponse.route].kind = "file"
           /\ routes[lastResponse.route].file = k
           /\ lastResponse.status = 200
           /\ lastResponse.ctype = ContentTypeOfKind[filesData[k].type]
           /\ lastResponse.body = Body(routes[lastResponse.route].fileData)

\* What the routes hold is what was on disk when the server started, it
\* never changes afterwards, and two successive responses to the same
\* manifest path have the same body
C6_Cached ==
    /\ (~listening /\ listening') =>
          \A k \in DOMAIN filesData :
              \E r \in DOMAIN routes' :
                  /\ routes'[r].kind = "file" /\ routes'[r].file = k
                  /\ routes'[r].fileData =
                        [ok |-> TRUE, enc |-> EncodingOfKind[filesData[k].type],
                         data |-> disk[filesData[k].filePath]]
    /\ listening => routes' = routes
    /\ (/\ lastResponse.route # 0
        /\ lastResponse'.url = lastResponse.url
        /\ IsManifestUrl(lastResponse.url)) =>
          lastResponse'.body = lastResponse.body

\* C6: once the server listens, a GET of a manifest path is answered by the
\* entry's own handler with status 200, the content type of its kind and
\* the content read at startup, whatever happens to the file afterwards.
C6_ManifestServedFromCache == [](C6_Response) /\ [][C6_Cached]_vars

C6_Witness ==
    /\ lastResponse.url = filesData[8].path
    /\ lastResponse.status = 200
    /\ lastResponse.body = [enc |-> "utf8", data |-> "v1"]
    /\ filesData[8].filePath \notin DOMAIN disk

Readable(path) == path \in DOMAIN disk /\ disk[path] # "DIR"

\* A failed read behind the wildcard is answered 200 with an empty body
EmptyOk(r) == r.status = 200 /\ r.body.data = ""

\* C7: a request to a non-manifest path whose file cannot be read gets
\* status 200 and an empty body, in the text and in the binary branch, and
\* the server stays up.
C7_FailedProxyIsEmpty200 ==
    /\ [](listening =>
            \A url \in Urls :
                (~IsManifestUrl(url) /\ ~Readable(DotDot \o url)) =>
                    EmptyOk(Respond(url)))
    /\ [][(/\ lastResponse' # lastResponse
           /\ ~IsManifestUrl(lastResponse'.url)
           /\ ~Readable(DotDot \o lastResponse'.url)) =>
             /\ EmptyOk(lastResponse')
             /\ listening' /\ ~exited' /\ routes' = routes]_vars

C7_Witness ==
    /\ lastResponse.url = ImageUrl
    /\ lastResponse.status = 200
    /\ lastResponse.body.data = ""
    /\ ImagePath \notin DOMAIN disk

PhaseRank ==
    [Idle |-> 0, ServerStarting |-> 1, SettingsResolved |-> 2,
     BrowserLaunched |-> 3, ProcessingSample |-> 4, BrowserClosed |-> 5,
     Terminated |-> 6]

\* C8: the phases are entered in their order only, and the process never
\* terminates after the browser was launched without the browser having
\* been closed.
C8_PhaseOrder ==
    /\ [][PhaseRank[phase'] >= PhaseRank[phase]]_vars
    /\ []((exited /\ browser # "none") => browser = "closed")

C8_Witness ==
    /\ exited
    /\ phase = "Terminated"
    /\ browser = "closed"
    /\ checked = 2

StoredHash(file) ==
    IF Md5Path(file) \in DOMAIN disk THEN disk[Md5Path(file)] ELSE ""

\* The three cases of checkMD5Sum: no stored hash, or a stored hash and a
\* screenshot to compare it with
InThreeCases(file) == StoredHash(file) = "" \/ Readable(ScreenshotPath(file))

\* C9: in each of its three cases checkMD5Sum changes no file, fails
\* nothing, and leaves the run at the same place: the next sample or the
\* end of the loop.
C9_CheckMD5SumNoEffect ==
    [][(/\ pc = "checkMD5Sum"
        /\ pc' # pc
        /\ InThreeCases(jsonFiles[i + 1])) =>
          /\ disk' = disk
          /\ writes' = writes
          /\ pages' = pages
          /\ logged' = logged /\ ~logged'
          /\ exited' = exited /\ exitCode' = exitCode
          /\ browser' = browser
          /\ i' = i + 1
          /\ checked' = checked + 1
          /\ pc' = IF i + 1 < Len(jsonFiles) THEN "startPage" ELSE "close"]_vars

C9_Witness ==
    /\ md5Case = "changed"
    /\ StoredHash(NameA) = "h2"
    /\ checked = 1
    /\ pc = "startPage"
    /\ ~logged

Row(text) == CHOOSE row \in NumberInputs : row.text = text

IsPositive(x) == x.kind # "nan" /\ x.m > 0

====
